---- MODULE Spec2Model ----
(***************************************************************************)
(* A model of gurobi_optimods/matching.py: maximum_bipartite_matching      *)
(* (sparse-matrix, data-frame and networkx front ends, all reduced to one  *)
(* min-cost-flow network) and maximum_weighted_matching (a binary program  *)
(* with one clash constraint per node).                                    *)
(*                                                                         *)
(* A sparse matrix in COO format is a record                               *)
(*     [shape |-> n, entries |-> << <<row, col, data>>, ... >>]            *)
(* of an n x n matrix.  Nodes are 0 .. n-1.  Flows are integers in units   *)
(* of 1/Scale, so the unit capacity is Scale and "flow > 0.5" reads        *)
(* 2 * flow > Scale.                                                       *)
(***************************************************************************)
EXTENDS Integers, Sequences, FiniteSets, TLC

\* ------------------------------------------------------------------ bounds
NumNodes == 4       \* nodes of a sparse-matrix / weighted input
MaxEdges == 3       \* undirected edges of an input graph
Scale == 2          \* a flow is a multiple of 1/Scale
MaxRows == 2        \* rows of a data-frame input
NumLabels == 2      \* distinct labels per data-frame column
NxNodes == 3        \* nodes of a networkx input

\* Edge weights offered to maximum_weighted_matching.
Weights == {-1, 5}

VARIABLES
    pc,         \* position of the call: idle, solving (in solve_min_cost_flow),
                \* optimizing (in m.optimize), done, raised
    kind,       \* representation dispatched on: scipy, pandas, networkx,
                \* unknown, weighted (none before the call)
    graph,      \* the graph argument as passed by the caller
    nodes1,     \* nodes1 as seen by _maximum_bipartite_matching_scipy
    nodes2,     \* nodes2 as seen by _maximum_bipartite_matching_scipy
    adjacency,  \* adjacency as seen by _maximum_bipartite_matching_scipy
    from_arc,   \* tail of every arc of the flow network
    to_arc,     \* head of every arc of the flow network
    flows,      \* flow on every arc, in units of 1/Scale
    x,          \* value of every binary variable of the weighted model
    result,     \* the value returned to the caller
    err,        \* the exception that ended the call, or "none"
    acquired,   \* engine sessions entered (create_env().__enter__)
    released    \* engine sessions exited (__exit__)

vars == <<pc, kind, graph, nodes1, nodes2, adjacency, from_arc, to_arc,
          flows, x, result, err, acquired, released>>

\* ------------------------------------------------------------ sequences
Range(s) == {s[i] : i \in 1..Len(s)}

Rep(v, n) == [i \in 1..n |-> v]

Column(s, k) == [i \in 1..Len(s) |-> s[i][k]]

\* s[mask], numpy boolean-mask indexing: the elements of s where mask holds,
\* in order.
RECURSIVE MaskFrom(_, _, _)
MaskFrom(s, mask, i) ==
    IF i > Len(s) THEN <<>>
    ELSE (IF mask[i] THEN <<s[i]>> ELSE <<>>) \o MaskFrom(s, mask, i + 1)

Masked(s, mask) == MaskFrom(s, mask, 1)

\* s[:-1]: all but the last element; empty stays empty.
DropLast(s) == IF Len(s) = 0 THEN <<>> ELSE SubSeq(s, 1, Len(s) - 1)

RECURSIVE SumSeq(_)
SumSeq(s) == IF Len(s) = 0 THEN 0 ELSE Head(s) + SumSeq(Tail(s))

\* The members of a set of integers in increasing order (np.unique).
RECURSIVE SortInts(_)
SortInts(S) ==
    IF S = {} THEN <<>>
    ELSE LET m == CHOOSE a \in S : \A b \in S : a <= b
         IN  <<m>> \o SortInts(S \ {m})

PairLeq(e, f) == e[1] < f[1] \/ (e[1] = f[1] /\ e[2] <= f[2])

\* The members of a set of <<row, col>> pairs in row-major order.
RECURSIVE SortPairs(_)
SortPairs(S) ==
    IF S = {} THEN <<>>
    ELSE LET m == CHOOSE e \in S : \A f \in S : PairLeq(e, f)
         IN  <<m>> \o SortPairs(S \ {m})

\* --------------------------------------------------------- sparse matrices
Positions(A) == {<<e[1], e[2]>> : e \in Range(A.entries)}

\* sp.triu(A): the entries on or above the diagonal, order kept, duplicates
\* kept.
Triu(A) ==
    [shape |-> A.shape,
     entries |-> SelectSeq(A.entries, LAMBDA e : e[1] <= e[2])]

\* Sum of the data stored at position p (duplicates of a COO matrix add up).
ValueAt(A, p) ==
    SumSeq([i \in 1..Len(A.entries) |->
              IF <<A.entries[i][1], A.entries[i][2]>> = p
              THEN A.entries[i][3] ELSE 0])

\* matching + matching.T: canonical (sorted, duplicate-free) sum of a matrix
\* and its transpose.
PlusTranspose(A) ==
    LET T == [shape |-> A.shape,
              entries |-> [i \in 1..Len(A.entries) |->
                             <<A.entries[i][2], A.entries[i][1], A.entries[i][3]>>]]
        pos == SortPairs(Positions(A) \cup Positions(T))
    IN  [shape |-> A.shape,
         entries |-> [i \in 1..Len(pos) |->
                        <<pos[i][1], pos[i][2],
                          ValueAt(A, pos[i]) + ValueAt(T, pos[i])>>]]

\* ------------------------------------------------ bipartite network builder
\* from_arc, to_arc of _maximum_bipartite_matching_scipy.
Source(adj) == adj.shape

Sink(adj) == adj.shape + 1

FromArc(adj, n1, n2) ==
    Rep(Source(adj), Len(n1)) \o Column(Triu(adj).entries, 1) \o n2
        \o <<Sink(adj)>>

ToArc(adj, n1, n2) ==
    n1 \o Column(Triu(adj).entries, 2) \o Rep(Sink(adj), Len(n2))
        \o <<Source(adj)>>

\* capacity: ones, and GRB.INFINITY on the last arc (never binding: the
\* unit arcs out of the source bound every flow, so -1 stands for "none").
Capacity(i, m) == IF i = m THEN -1 ELSE Scale

\* cost: zeros, and -1 on the last arc.
Cost(i, m) == IF i = m THEN -1 ELSE 0

\* ------------------------------------------------- min-cost-flow engine
\* solve_min_cost_flow(env, from_arc, to_arc, capacity, cost, balance) with
\* zero balances: the engine may return any circulation that respects the
\* capacities.  Every such circulation is a sum of flows around simple
\* cycles, so the engine is modelled as pushing one unit (1/Scale) around a
\* simple cycle at a time and returning at any point.
NumArcs == Len(from_arc)

\* Arc sequences leading from u to target through nodes not yet visited,
\* using only arcs numbered above low.
RECURSIVE SimplePaths(_, _, _, _)
SimplePaths(u, target, visited, low) ==
    IF u = target THEN {<<>>}
    ELSE UNION {{<<a>> \o p :
                   p \in SimplePaths(to_arc[a], target,
                                     visited \cup {to_arc[a]}, low)} :
                a \in {b \in (low + 1)..NumArcs :
                         from_arc[b] = u /\ to_arc[b] \notin visited}}

\* Simple cycles, each listed once, starting at its lowest-numbered arc.
Cycles ==
    UNION {{<<a>> \o p :
              p \in SimplePaths(to_arc[a], from_arc[a], {to_arc[a]}, a)} :
           a \in 1..NumArcs}

\* Capacities hold and flow is conserved at every node.
Feasible(f) ==
    /\ \A a \in 1..NumArcs :
         f[a] >= 0 /\ (Capacity(a, NumArcs) = -1 \/ f[a] <= Capacity(a, NumArcs))
    /\ \A u \in Range(from_arc) \cup Range(to_arc) :
         SumSeq([a \in 1..NumArcs |-> IF from_arc[a] = u THEN f[a] ELSE 0])
           = SumSeq([a \in 1..NumArcs |-> IF to_arc[a] = u THEN f[a] ELSE 0])

\* Nodes reachable from S in the residual network of f without its last arc.
RECURSIVE Residual(_, _)
Residual(S, f) ==
    LET step == {to_arc[a] : a \in {b \in 1..(NumArcs - 1) :
                                      from_arc[b] \in S /\ f[b] < Scale}}
                \cup {from_arc[a] : a \in {b \in 1..(NumArcs - 1) :
                                             to_arc[b] \in S /\ f[b] > 0}}
    IN  IF step \subseteq S THEN S ELSE Residual(S \cup step, f)

\* f has minimum cost: only the last arc has a cost (-1, unbounded
\* capacity), so a cheaper circulation exists iff the residual network
\* still joins the head of the last arc to its tail.
Optimal(f) == from_arc[NumArcs] \notin Residual({to_arc[NumArcs]}, f)

\* ---------------------------------------------- flow solution interpreter
\* select = (flows > 0.5) & (from_arc != source) & (to_arc != sink)
Select(f, adj) ==
    [i \in 1..Len(f) |->
       2 * f[i] > Scale /\ from_arc[i] # Source(adj) /\ to_arc[i] # Sink(adj)]

\* The selection without the [:-1].
ArcResult_KeepLast(f, adj) == Masked([i \in 1..Len(f) |-> i], Select(f, adj))

\* from_arc[select][:-1] and to_arc[select][:-1], as arc numbers.
ArcResult(f, adj) == DropLast(Masked([i \in 1..Len(f) |-> i], Select(f, adj)))

\* matching + matching.T of _maximum_bipartite_matching_scipy.
Matching(f, adj) ==
    LET r == ArcResult(f, adj)
    IN  PlusTranspose(
          [shape |-> Triu(adj).shape,
           entries |-> [i \in 1..Len(r) |-> <<from_arc[r[i]], to_arc[r[i]], 1>>]])

\* ------------------------------------------------------------------ inputs
UpperPairs(n) == {p \in (0..(n - 1)) \X (0..(n - 1)) : p[1] < p[2]}

Transposed(E) == {<<p[2], p[1]>> : p \in E}

\* Loop-free undirected graphs on n nodes with at most MaxEdges edges.
Graphs(n) == {E \in SUBSET UpperPairs(n) : Cardinality(E) <= MaxEdges}

Forms == {"upper", "symmetric"}

\* The adjacency matrix of edge set E with weight w[e] on edge e, stored as
\* its upper triangle or symmetrically.
Matrix(n, E, form, w) ==
    LET pos == SortPairs(IF form = "upper" THEN E ELSE E \cup Transposed(E))
    IN  [shape |-> n,
         entries |-> [i \in 1..Len(pos) |->
                        <<pos[i][1], pos[i][2],
                          IF pos[i] \in E THEN w[pos[i]]
                          ELSE w[<<pos[i][2], pos[i][1]>>]>>]]

Ones(E) == [e \in E |-> 1]

\* ------------------------------------------------------ data-frame front end
\* A frame is a sequence of rows <<n1 label, n2 label>>; labels are integers,
\* ordered as pandas orders categories.
Frames ==
    UNION {[1..k -> (1..NumLabels) \X (1..NumLabels)] : k \in 0..MaxRows}

\* astype("category").cat.codes: the rank of each label among the distinct
\* labels of its column.
CatCodes(labels) ==
    [i \in 1..Len(labels) |->
       Cardinality({l \in Range(labels) : l < labels[i]})]

MaxOf(s) == CHOOSE v \in Range(s) : \A w \in Range(s) : w <= v

RowCodes(frame) == CatCodes(Column(frame, 1))

ColCodes(frame) ==
    LET row == RowCodes(frame)
        codes == CatCodes(Column(frame, 2))
    IN  [i \in 1..Len(frame) |-> codes[i] + MaxOf(row) + 1]

\* sp.coo_array((data, (row, col)), shape=(degree, degree)): one entry per
\* row of the frame, duplicates kept.
FrameAdjacency(frame) ==
    LET row == RowCodes(frame)
        col == ColCodes(frame)
    IN  [shape |-> MaxOf(col) + 1,
         entries |-> [i \in 1..Len(frame) |-> <<row[i], col[i], 1>>]]

\* pd.merge(original, selected, left_on=codes, right_on=["n1", "n2"]), then
\* the frame's own columns: the rows of the frame whose code pair is an
\* entry of triu(matching), in frame order.
FrameResult(frame, matching) ==
    LET row == RowCodes(frame)
        col == ColCodes(frame)
        selected == Positions(Triu(matching))
        mask == [i \in 1..Len(frame) |-> <<row[i], col[i]>> \in selected]
    IN  Masked(frame, mask)

\* -------------------------------------------------------- networkx front end
\* A graph is [nodes |-> the node identities in insertion order,
\*             edges |-> a set of two-element sets of identities].
\* nx.convert_matrix.to_scipy_sparse_array(graph): row/column i is the i-th
\* node of graph.nodes(); both orientations of every edge, weight 1.
ToScipySparseArray(g) ==
    LET idx == 0..(Len(g.nodes) - 1)
        pos == SortPairs({p \in idx \X idx :
                            /\ p[1] # p[2]
                            /\ {g.nodes[p[1] + 1], g.nodes[p[2] + 1]} \in g.edges})
    IN  [shape |-> Len(g.nodes),
         entries |-> [i \in 1..Len(pos) |-> <<pos[i][1], pos[i][2], 1>>]]

\* nx.convert_matrix.from_scipy_sparse_array(matching): nodes 0 .. n-1, one
\* edge per stored entry.
FromScipySparseArray(A) ==
    [nodes |-> [i \in 1..A.shape |-> i - 1],
     edges |-> {{p[1], p[2]} : p \in Positions(A)}]

\* Insertion orders offered: the identity and every exchange of two nodes.
NodeOrders ==
    {[i \in 1..NxNodes |-> i - 1]} \cup
    {[i \in 1..NxNodes |-> IF i = a THEN b - 1 ELSE IF i = b THEN a - 1 ELSE i - 1] :
       a, b \in 1..NxNodes}

NxEdgeSets ==
    {{{p[1], p[2]} : p \in E} : E \in Graphs(NxNodes)}

\* ------------------------------------------------- weighted matching model
\* edges = list(zip(G.row, G.col))
Edges(G) == [i \in 1..Len(G.entries) |-> <<G.entries[i][1], G.entries[i][2]>>]

\* clashes filled from the first endpoint of every edge only.
Clashes_FirstEndpoint(edges) ==
    [v \in {e[1] : e \in Range(edges)} |-> {e \in Range(edges) : e[1] = v}]

\* clashes: for every node that an edge touches, the edges that touch it.
Clashes(edges) ==
    [v \in {e[1] : e \in Range(edges)} \cup {e[2] : e \in Range(edges)} |->
       {e \in Range(edges) : e[1] = v \/ e[2] = v}]

RECURSIVE SumOver(_, _)
SumOver(S, f) ==
    IF S = {} THEN 0
    ELSE LET e == CHOOSE d \in S : TRUE
         IN  f[e] + SumOver(S \ {e}, f)

\* The binary assignments that satisfy every constraint added at line 198.
Assignments(edges) ==
    LET clashes == Clashes(edges)
    IN  {xs \in [Range(edges) -> {0, 1}] :
           \A v \in DOMAIN clashes : SumOver(clashes[v], xs) <= 1}

\* weights = dict(zip(edges, G.data))
WeightOf(G) == [e \in Range(Edges(G)) |-> ValueAt(G, e)]

\* x.prod(weights)
Objective(xs, G) ==
    SumOver(DOMAIN xs, [e \in DOMAIN xs |-> xs[e] * WeightOf(G)[e]])

\* [(i, j, v.Obj) for (i, j), v in x.items() if v.X > 0.5]
Extracted(xs, G) ==
    LET edges == Edges(G)
        all == [i \in 1..Len(edges) |->
                  <<edges[i][1], edges[i][2], WeightOf(G)[edges[i]]>>]
    IN  Masked(all, [i \in 1..Len(edges) |-> 2 * xs[edges[i]] > 1])

\* ---------------------------------------------------------------- actions
Init ==
    /\ pc = "idle"
    /\ kind = "none"
    /\ graph = <<>>
    /\ nodes1 = <<>>
    /\ nodes2 = <<>>
    /\ adjacency = [shape |-> 0, entries |-> <<>>]
    /\ from_arc = <<>>
    /\ to_arc = <<>>
    /\ flows = <<>>
    /\ x = <<>>
    /\ result = <<>>
    /\ err = "none"
    /\ acquired = 0
    /\ released = 0

\* _maximum_bipartite_matching_scipy up to the engine call: build the
\* network, enter the engine session.
EnterScipy(adj, n1, n2) ==
    /\ adjacency' = adj
    /\ nodes1' = n1
    /\ nodes2' = n2
    /\ from_arc' = FromArc(adj, n1, n2)
    /\ to_arc' = ToArc(adj, n1, n2)
    /\ flows' = Rep(0, Len(n1) + Len(Triu(adj).entries) + Len(n2) + 1)
    /\ acquired' = acquired + 1
    /\ pc' = "solving"
    /\ UNCHANGED <<x, result, err, released>>

\* maximum_bipartite_matching(graph, nodes1, nodes2) on a sparse matrix.
\* Inputs offered: a loop-free graph stored as its upper triangle or
\* symmetrically, and every split of the matrix indices into nodes1 and
\* nodes2 (each a sorted array), whichever side holds the lower indices.
CallScipy ==
    /\ pc = "idle"
    /\ \E E \in Graphs(NumNodes), form \in Forms,
          side \in [0..(NumNodes - 1) -> {1, 2}] :
         LET adj == Matrix(NumNodes, E, form, Ones(E))
             n1 == SortInts({v \in DOMAIN side : side[v] = 1})
             n2 == SortInts({v \in DOMAIN side : side[v] = 2})
         IN  /\ kind' = "scipy"
             /\ graph' = adj
             /\ EnterScipy(adj, n1, n2)

\* The engine pushes one more unit of flow around a simple cycle.
Push ==
    /\ pc = "solving"
    /\ \E c \in Cycles :
         /\ \A i \in 1..Len(c) :
              Capacity(c[i], NumArcs) = -1 \/ flows[c[i]] < Capacity(c[i], NumArcs)
         /\ flows' = [a \in 1..NumArcs |->
                        flows[a] + (IF a \in Range(c) THEN 1 ELSE 0)]
    /\ UNCHANGED <<pc, kind, graph, nodes1, nodes2, adjacency, from_arc, to_arc,
                   x, result, err, acquired, released>>

\* solve_min_cost_flow returns, the with block exits and releases the
\* session, and lines 158-169 turn the flows into the matching.
SolveReturn ==
    /\ pc = "solving"
    /\ pc' = "done"
    /\ released' = released + 1
    /\ result' = CASE kind = "pandas" ->
                        FrameResult(graph, Matching(flows, adjacency))
                     [] kind = "networkx" ->
                        FromScipySparseArray(Matching(flows, adjacency))
                     [] OTHER -> Matching(flows, adjacency)
    /\ UNCHANGED <<kind, graph, nodes1, nodes2, adjacency, from_arc, to_arc,
                   flows, x, err, acquired>>

\* solve_min_cost_flow raises and the session is left open.
SolveFail_Leak ==
    /\ pc = "solving"
    /\ pc' = "raised"
    /\ err' = "GurobiError"
    /\ UNCHANGED <<kind, graph, nodes1, nodes2, adjacency, from_arc, to_arc,
                   flows, x, result, acquired, released>>

\* solve_min_cost_flow raises; the with block exits and releases the session.
SolveFail ==
    /\ pc = "solving"
    /\ pc' = "raised"
    /\ err' = "GurobiError"
    /\ released' = released + 1
    /\ UNCHANGED <<kind, graph, nodes1, nodes2, adjacency, from_arc, to_arc,
                   flows, x, result, acquired>>

\* maximum_bipartite_matching on anything else: line 88.
CallUnknown ==
    /\ pc = "idle"
    /\ kind' = "unknown"
    /\ pc' = "raised"
    /\ err' = "ValueError"
    /\ UNCHANGED <<graph, nodes1, nodes2, adjacency, from_arc, to_arc, flows, x,
                   result, acquired, released>>

\* maximum_bipartite_matching(frame, n1_column, n2_column): lines 93-102.
\* row.max() of an empty frame raises before anything is built.
CallPandas ==
    /\ pc = "idle"
    /\ \E frame \in Frames :
         /\ kind' = "pandas"
         /\ graph' = frame
         /\ IF Len(frame) = 0
            THEN /\ pc' = "raised"
                 /\ err' = "ValueError"
                 /\ UNCHANGED <<nodes1, nodes2, adjacency, from_arc, to_arc,
                                flows, x, result, acquired, released>>
            ELSE EnterScipy(FrameAdjacency(frame),
                            SortInts(Range(RowCodes(frame))),
                            SortInts(Range(ColCodes(frame))))

\* maximum_bipartite_matching(graph, nodes1, nodes2) on a networkx graph:
\* lines 120-121.
CallNetworkx ==
    /\ pc = "idle"
    /\ \E order \in NodeOrders, E \in NxEdgeSets,
          side \in [0..(NxNodes - 1) -> {1, 2}] :
         LET g == [nodes |-> order, edges |-> E]
         IN  /\ kind' = "networkx"
             /\ graph' = g
             /\ EnterScipy(ToScipySparseArray(g),
                           SortInts({v \in DOMAIN side : side[v] = 1}),
                           SortInts({v \in DOMAIN side : side[v] = 2}))

\* maximum_weighted_matching(G) up to m.optimize(): enter the session, add
\* the variables, the clash constraints and the objective.
CallWeighted ==
    /\ pc = "idle"
    /\ \E E \in Graphs(NumNodes), form \in Forms :
         \E w \in [E -> Weights] :
           /\ kind' = "weighted"
           /\ graph' = Matrix(NumNodes, E, form, w)
    /\ acquired' = acquired + 1
    /\ pc' = "optimizing"
    /\ UNCHANGED <<nodes1, nodes2, adjacency, from_arc, to_arc, flows, x,
                   result, err, released>>

\* m.optimize() returns some assignment that satisfies the constraints;
\* lines 204-208 extract it; both with blocks exit.  zip(*[]) of an empty
\* selection cannot be unpacked into row, col, data.
OptimizeReturn ==
    /\ pc = "optimizing"
    /\ \E xs \in Assignments(Edges(graph)) :
         /\ x' = xs
         /\ IF Len(Extracted(xs, graph)) = 0
            THEN /\ pc' = "raised"
                 /\ err' = "ValueError"
                 /\ UNCHANGED result
            ELSE /\ pc' = "done"
                 /\ result' = [shape |-> graph.shape,
                               entries |-> Extracted(xs, graph)]
                 /\ UNCHANGED err
    /\ released' = released + 1
    /\ UNCHANGED <<kind, graph, nodes1, nodes2, adjacency, from_arc, to_arc,
                   flows, acquired>>

\* m.optimize() raises; both with blocks exit.
OptimizeFail ==
    /\ pc = "optimizing"
    /\ pc' = "raised"
    /\ err' = "GurobiError"
    /\ released' = released + 1
    /\ UNCHANGED <<kind, graph, nodes1, nodes2, adjacency, from_arc, to_arc,
                   flows, x, result, acquired>>

Next ==
    \/ CallScipy
    \/ CallPandas
    \/ CallNetworkx
    \/ CallUnknown
    \/ CallWeighted
    \/ Push
    \/ SolveReturn
    \/ SolveFail
    \/ OptimizeReturn
    \/ OptimizeFail

Spec == Init /\ [][Next]_vars

NextSparse == CallScipy \/ Push \/ SolveReturn \/ SolveFail

SpecSparse == Init /\ [][NextSparse]_vars

NextFrame == CallPandas \/ Push \/ SolveReturn \/ SolveFail

SpecFrame == Init /\ [][NextFrame]_vars

NextGraph == CallNetworkx \/ Push \/ SolveReturn \/ SolveFail

SpecGraph == Init /\ [][NextGraph]_vars

NextWeighted == CallWeighted \/ OptimizeReturn \/ OptimizeFail

SpecWeighted == Init /\ [][NextWeighted]_vars

\* ------------------------------------------------------------ properties
\* Sanity: whatever the engine returns is a feasible circulation.
FlowFeasible == pc \in {"solving", "done"} /\ kind # "weighted" => Feasible(flows)

N1 == Range(nodes1)

N2 == Range(nodes2)

\* The undirected edges stored in a sparse matrix.
UndirectedEdges(A) == {{p[1], p[2]} : p \in Positions(A)}

Degree(v, Es) == Cardinality({e \in Es : v \in e})

IsMatching(Es) == \A e, f \in Es : e # f => e \cap f = {}

MaxMatchingSize(Es) ==
    LET sizes == {Cardinality(M) : M \in {K \in SUBSET Es : IsMatching(K)}}
    IN  CHOOSE k \in sizes : \A j \in sizes : j <= k

\* Every edge of the input joins a node of nodes1 to a node of nodes2.
BipartiteInput ==
    \A e \in UndirectedEdges(graph) : e \cap N1 # {} /\ e \cap N2 # {}

\* The arcs of the network that come from the input graph.
GraphArcs ==
    (Len(nodes1) + 1)..(Len(nodes1) + Len(Triu(adjacency).entries))

\* The flow is a whole number on every arc (a vertex solution).
Integral(f) == \A a \in 1..Len(f) : f[a] % Scale = 0

\* C1: on a sparse-matrix input whose edges all join nodes1 to nodes2, an
\* optimal (integral) min-cost flow yields a matching with as many edges as
\* a maximum matching of the graph, whichever indices the two partitions
\* have.
C1_MaximumCardinality ==
    (kind = "scipy" /\ pc = "done" /\ BipartiteInput
       /\ Integral(flows) /\ Optimal(flows))
        => Cardinality(UndirectedEdges(result))
             = MaxMatchingSize(UndirectedEdges(graph))

\* C2: on a sparse-matrix input whose edges all join nodes1 to nodes2, no
\* node is an endpoint of more than one edge of the returned adjacency
\* structure, whatever feasible flow the engine returned.
C2_Validity ==
    (kind = "scipy" /\ pc = "done" /\ BipartiteInput)
        => \A v \in 0..(graph.shape - 1) :
             Degree(v, UndirectedEdges(result)) <= 1

\* C9: every arc built from the input graph has its tail in nodes1 and its
\* head in nodes2, so every edge of the returned matching joins nodes1 to
\* nodes2.
C9_ArcsJoinPartitions ==
    (kind = "scipy" /\ pc \in {"solving", "done"})
        => /\ \A a \in GraphArcs : from_arc[a] \in N1 /\ to_arc[a] \in N2
           /\ pc = "done" =>
                \A e \in UndirectedEdges(result) : e \cap N1 # {} /\ e \cap N2 # {}

\* C10: for every feasible flow, the arcs the interpreter keeps are exactly
\* the arcs of the input graph whose flow exceeds 0.5: the element dropped
\* by [:-1] is the sink->source arc and never an arc of the graph.
C10_KeepsGraphArcs ==
    (kind = "scipy" /\ pc = "done")
        => ArcResult(flows, adjacency)
             = Masked([i \in 1..NumArcs |-> i],
                      [i \in 1..NumArcs |-> i \in GraphArcs /\ 2 * flows[i] > Scale])

\* A returned flow in which a graph arc is kept, the sink->source arc is
\* dropped, and another graph arc carries a positive flow of at most 0.5.
C10_Witness ==
    /\ kind = "scipy" /\ pc = "done"
    /\ 2 * flows[NumArcs] > Scale
    /\ Len(ArcResult(flows, adjacency)) >= 1
    /\ \E a \in GraphArcs : flows[a] > 0 /\ 2 * flows[a] <= Scale

\* C5: on a networkx input (here one whose edges all join a nodes1 identity
\* to a nodes2 identity) every edge of the returned graph is an edge of the
\* input graph between the same node identities, whatever the insertion
\* order of the nodes.
C5_Subgraph ==
    (kind = "networkx" /\ pc = "done"
       /\ \A e \in graph.edges : e \cap N1 # {} /\ e \cap N2 # {})
        => result.edges \subseteq graph.edges

\* C6: on a data-frame input no nodes1 label and no nodes2 label occurs in
\* more than one row of the returned table, even when the input repeats a
\* label pair.
C6_FrameValidity ==
    (kind = "pandas" /\ pc = "done")
        => \A i, j \in 1..Len(result) :
             i # j => result[i][1] # result[j][1] /\ result[i][2] # result[j][2]

\* C7: a call enters an engine session at most once, never when the graph
\* type is unknown, never releases more than it entered, and has released
\* every session it entered when it returns or raises.
C7_SessionScoped ==
    /\ acquired <= 1
    /\ released <= acquired
    /\ kind = "unknown" => acquired = 0
    /\ pc \in {"done", "raised"} => released = acquired

\* A weighted call whose extraction raised after the session was entered.
C7_Witness ==
    /\ kind = "weighted" /\ pc = "raised" /\ err = "ValueError"
    /\ acquired = 1 /\ released = 1

\* The assignment maximises the objective over all feasible assignments.
WOptimal(xs, G) ==
    \A ys \in Assignments(Edges(G)) : Objective(ys, G) <= Objective(xs, G)

\* Largest total weight of a set of pairwise node-disjoint edges of G, each
\* undirected edge counted once.
BruteForce(G) ==
    LET Es == UndirectedEdges(G)
        w == [e \in Es |->
                LET p == CHOOSE q \in Positions(G) : {q[1], q[2]} = e
                IN  ValueAt(G, p)]
        totals == {SumOver(M, w) : M \in {K \in SUBSET Es : IsMatching(K)}}
    IN  CHOOSE t \in totals : \A u \in totals : u <= t

\* C3: for every weighted graph, a graph with no edges included, the call
\* returns entries whose weights sum to the brute-force maximum weight of a
\* matching.
C3_BruteForceWeight ==
    (kind = "weighted" /\ pc \in {"done", "raised"} /\ err # "GurobiError"
       /\ WOptimal(x, graph))
        => /\ pc = "done"
           /\ SumSeq(Column(result.entries, 3)) = BruteForce(graph)

\* C4: in every result of maximum_weighted_matching at most one returned
\* entry is incident to any node, also when the input stores both
\* orientations of each edge.
C4_ConflictFree ==
    (kind = "weighted" /\ pc = "done")
        => \A v \in 0..(graph.shape - 1) :
             Cardinality({p \in Positions(result) : p[1] = v \/ p[2] = v}) <= 1

\* A result with two entries on an input that stores both orientations.
C4_Witness ==
    /\ kind = "weighted" /\ pc = "done"
    /\ \E p \in Positions(graph) : <<p[2], p[1]>> \in Positions(graph)
    /\ Len(result.entries) = 2

\* C8: whenever the solve succeeds, a solve that selects nothing included,
\* the call returns a matrix of the input's shape holding exactly the
\* entries whose variable exceeds 0.5, each with its original weight.
C8_ExactSelection ==
    (kind = "weighted" /\ pc \in {"done", "raised"} /\ err # "GurobiError")
        => /\ pc = "done"
           /\ result.shape = graph.shape
           /\ Range(result.entries)
                = {e \in Range(graph.entries) : 2 * x[<<e[1], e[2]>>] > 1}

====
